---- MODULE Spec2Model ----
(***************************************************************************)
(* dns-explorer backend: the TTL cache (app/cache.py), the iterative       *)
(* resolver (app/resolver.py) and the request handlers that share one      *)
(* cache (app/main.py).                                                    *)
(*                                                                         *)
(* Every request handler is a thread t with a program counter pc[t].  The  *)
(* cache methods are split at each access to the shared dict self.s, the   *)
(* only places where another handler's step can come in between.           *)
(*                                                                         *)
(*   SpecStore    one caller issuing TTLStore.get / TTLStore.set           *)
(*   Spec         one caller issuing DNSResolver.resolve, one at a time    *)
(*   SpecThreads  several handlers running resolve on the shared cache     *)
(***************************************************************************)
EXTENDS Integers, Sequences, FiniteSets, TLC

VARIABLES
    s,        \* TTLStore.s: the dict, in insertion order, <<[k, exp, data]>>
    maxsize,  \* TTLStore.maxsize
    now,      \* the clock time.time() reads
    live,     \* the handler threads that run in this specification
    pc,       \* pc[t]: where thread t is
    fr,       \* fr[t]: the frame of t's running TTLStore.get / TTLStore.set
    rs,       \* rs[t]: the locals of t's running DNSResolver.resolve
    result,   \* result[t]: what t's resolve call returns or raises
    prev      \* what the resolve call before this one was and returned

vars == <<s, maxsize, now, live, pc, fr, rs, result, prev>>

----------------------------------------------------------------------------
(* Bounds of the model. *)

MaxTime == 2        \* the clock runs from 0 to MaxTime
MaxCap == 2         \* stores are created with maxsize in 1..MaxCap
NumThreads == 2     \* handler threads of SpecThreads

Threads == 1..NumThreads

(* Python's None and a present value. *)
None == <<>>
Some(x) == <<x>>

----------------------------------------------------------------------------
(* The dict self.s.  A Python dict keeps insertion order; assigning to a   *)
(* key that is present keeps the key's place.                              *)

DictKeys(d) == {d[i].k : i \in DOMAIN d}

DictIndex(d, k) == CHOOSE i \in DOMAIN d : d[i].k = k

\* self.s.get(k): the (exp, data) tuple, or None
DictGet(d, k) ==
    IF k \in DictKeys(d)
    THEN Some([exp |-> d[DictIndex(d, k)].exp, data |-> d[DictIndex(d, k)].data])
    ELSE None

\* the dict without k (dict.pop's effect on the dict)
DictRemove(d, k) == SelectSeq(d, LAMBDA e : e.k # k)

\* self.s[k] = (exp, data)
DictSetItem(d, k, exp, data) ==
    IF k \in DictKeys(d)
    THEN [d EXCEPT ![DictIndex(d, k)] = [k |-> k, exp |-> exp, data |-> data]]
    ELSE Append(d, [k |-> k, exp |-> exp, data |-> data])

\* an eviction that takes the newest key
FirstKey_newest(d) == d[Len(d)].k

\* next(iter(self.s)): the first key in insertion order
FirstKey(d) == d[1].k

----------------------------------------------------------------------------
(* Frames.  fr[t] holds the arguments and locals of the cache method t is  *)
(* in; pre is the dict as it was when the store's single caller entered    *)
(* the method and tread the clock value the method read, kept for stating  *)
(* what the call did.                                                      *)

NoKey == <<<<>>, "">>

NoData == [answer |-> <<>>, final_ips |-> <<>>, cname_chain |-> <<>>, ms |-> 0]

NoFrame ==
    [op |-> "", k |-> NoKey, data |-> NoData, ttl |-> 0, v |-> None,
     victim |-> None, ret |-> None, exc |-> "", pre |-> <<>>, tread |-> 0,
     after |-> ""]

\* the part of the state no cache method touches
CacheFrame == UNCHANGED <<maxsize, now, live, rs, result, prev>>

----------------------------------------------------------------------------
(* TTLStore.get, cache.py lines 8-16. *)

\* a get that still serves an entry at the instant it expires
Expired_strict(t, exp) == t > exp

\* line 13: time.time() >= exp
Expired(t, exp) == t >= exp

\* lines 9-11: v = self.s.get(k); if not v: return None
get_lookup(t) ==
    /\ pc[t] = "get"
    /\ LET v == DictGet(s, fr[t].k) IN
         IF v = None
         THEN /\ fr' = [fr EXCEPT ![t].ret = None]
              /\ pc' = [pc EXCEPT ![t] = "get_ret"]
         ELSE /\ fr' = [fr EXCEPT ![t].v = v]
              /\ pc' = [pc EXCEPT ![t] = "get_chk"]
    /\ UNCHANGED s
    /\ CacheFrame

\* lines 12-13 and 16: exp, data = v; if time.time() >= exp ...; return data
get_check(t) ==
    /\ pc[t] = "get_chk"
    /\ IF Expired(now, fr[t].v[1].exp)
       THEN /\ fr' = [fr EXCEPT ![t].tread = now]
            /\ pc' = [pc EXCEPT ![t] = "get_pop"]
       ELSE /\ fr' = [fr EXCEPT ![t].tread = now, ![t].ret = Some(fr[t].v[1].data)]
            /\ pc' = [pc EXCEPT ![t] = "get_ret"]
    /\ UNCHANGED s
    /\ CacheFrame

\* lines 14-15: self.s.pop(k, None); return None
get_pop(t) ==
    /\ pc[t] = "get_pop"
    /\ s' = DictRemove(s, fr[t].k)
    /\ fr' = [fr EXCEPT ![t].ret = None]
    /\ pc' = [pc EXCEPT ![t] = "get_ret"]
    /\ CacheFrame

----------------------------------------------------------------------------
(* TTLStore.set, cache.py lines 18-23. *)

\* a set that stores an entry of ttl 0
NoOpTTL_negative(ttl) == ttl < 0

\* line 19: ttl <= 0
NoOpTTL(ttl) == ttl <= 0

\* a capacity test that is off by one
AtCapacity_strict(n, m) == n > m

\* line 21: len(self.s) >= self.maxsize
AtCapacity(n, m) == n >= m

\* a set that forgets the ttl
ExpiresAt_noTtl(t, ttl) == t

\* line 23: time.time() + ttl
ExpiresAt(t, ttl) == t + ttl

\* lines 19-21: if ttl <= 0: return; if len(self.s) >= self.maxsize
set_check(t) ==
    /\ pc[t] = "set"
    /\ pc' = [pc EXCEPT ![t] =
                IF NoOpTTL(fr[t].ttl) THEN "set_ret"
                ELSE IF AtCapacity(Len(s), maxsize) THEN "set_iter"
                ELSE "set_store"]
    /\ UNCHANGED <<s, fr>>
    /\ CacheFrame

\* line 22, the argument: next(iter(self.s)); StopIteration on an empty dict
set_iter(t) ==
    /\ pc[t] = "set_iter"
    /\ IF s = <<>>
       THEN /\ fr' = [fr EXCEPT ![t].exc = "StopIteration"]
            /\ pc' = [pc EXCEPT ![t] = "set_ret"]
       ELSE /\ fr' = [fr EXCEPT ![t].victim = Some(FirstKey(s))]
            /\ pc' = [pc EXCEPT ![t] = "set_pop"]
    /\ UNCHANGED s
    /\ CacheFrame

\* line 22, the call: self.s.pop(key); KeyError when the key is gone
set_pop(t) ==
    /\ pc[t] = "set_pop"
    /\ IF fr[t].victim[1] \in DictKeys(s)
       THEN /\ s' = DictRemove(s, fr[t].victim[1])
            /\ pc' = [pc EXCEPT ![t] = "set_store"]
            /\ UNCHANGED fr
       ELSE /\ fr' = [fr EXCEPT ![t].exc = "KeyError"]
            /\ pc' = [pc EXCEPT ![t] = "set_ret"]
            /\ UNCHANGED s
    /\ CacheFrame

\* line 23: self.s[k] = (time.time() + ttl, data)
set_store(t) ==
    /\ pc[t] = "set_store"
    /\ s' = DictSetItem(s, fr[t].k, ExpiresAt(now, fr[t].ttl), fr[t].data)
    /\ fr' = [fr EXCEPT ![t].tread = now]
    /\ pc' = [pc EXCEPT ![t] = "set_ret"]
    /\ CacheFrame

\* time passes.  time.time() is read by the cache methods only, once per
\* call; the time a resolution takes passes when its loop has ended (finish)
\* and the time between two calls when the handler is idle, which gives the
\* cache methods every sequence of clock readings.
Tick ==
    /\ now < MaxTime
    /\ \A t \in live : pc[t] \in {"idle", "finish"}
    /\ now' = now + 1
    /\ UNCHANGED <<s, maxsize, live, pc, fr, rs, result, prev>>

----------------------------------------------------------------------------
(* SpecStore: one caller of a TTLStore, calls issued one at a time.        *)

StoreNames == {<<"w", ".">>, <<"y", ".">>}

StoreKeys == {<<n, "A">> : n \in StoreNames} \cup {<<<<"w", ".">>, "AAAA">>}

StoreValues == {[NoData EXCEPT !.ms = 1], [NoData EXCEPT !.ms = 2]}

StoreTTLs == {-1, 0, 1, 2}

NoRs ==
    [qname |-> <<>>, qtype |-> "", use_cache |-> FALSE, name |-> <<>>,
     key |-> NoKey, trace |-> <<>>, cname_chain |-> <<>>, hop_id |-> 0,
     start_total |-> 0, perf |-> 0, current |-> <<>>, ns_ips |-> <<>>,
     final_rrsets |-> <<>>, steps |-> 0, brk |-> FALSE,
     udp |-> 0, sys |-> 0, fails |-> 0, tcall |-> 0, tdone |-> 0, pre |-> <<>>,
     rcode |-> "", next_ips |-> None]

NoResult == [kind |-> "none"]

\* prev: the request of the single client's last call if that call, with
\* use_cache on, ended with a non-empty final answer, and the time at which
\* that answer's TTL runs out
NoPrev == [qname |-> <<>>, qtype |-> "", until |-> 0]

InitStore ==
    /\ s = <<>>
    /\ maxsize \in 1..MaxCap
    /\ now = 0
    /\ live = {1}
    /\ pc = [t \in Threads |-> "idle"]
    /\ fr = [t \in Threads |-> NoFrame]
    /\ rs = [t \in Threads |-> NoRs]
    /\ result = [t \in Threads |-> NoResult]
    /\ prev = NoPrev

\* the caller enters cache.get(k)
call_get(t, k) ==
    /\ pc[t] = "idle"
    /\ fr' = [fr EXCEPT ![t] = [NoFrame EXCEPT !.op = "get", !.k = k, !.pre = s,
                                               !.after = "store"]]
    /\ pc' = [pc EXCEPT ![t] = "get"]
    /\ UNCHANGED s
    /\ CacheFrame

\* the caller enters cache.set(k, data, ttl)
call_set(t, k, data, ttl) ==
    /\ pc[t] = "idle"
    /\ fr' = [fr EXCEPT ![t] = [NoFrame EXCEPT !.op = "set", !.k = k, !.data = data,
                                               !.ttl = ttl, !.pre = s,
                                               !.after = "store"]]
    /\ pc' = [pc EXCEPT ![t] = "set"]
    /\ UNCHANGED s
    /\ CacheFrame

\* the method returns to the caller
store_return(t) ==
    /\ pc[t] \in {"get_ret", "set_ret"}
    /\ fr[t].after = "store"
    /\ pc' = [pc EXCEPT ![t] = "idle"]
    /\ fr' = [fr EXCEPT ![t] = NoFrame]
    /\ UNCHANGED s
    /\ CacheFrame

NextStore ==
    \/ \E t \in live, k \in StoreKeys : call_get(t, k)
    \/ \E t \in live, k \in StoreKeys, d \in StoreValues, ttl \in StoreTTLs :
           call_set(t, k, d, ttl)
    \/ \E t \in live : get_lookup(t)
    \/ \E t \in live : get_check(t)
    \/ \E t \in live : get_pop(t)
    \/ \E t \in live : set_check(t)
    \/ \E t \in live : set_iter(t)
    \/ \E t \in live : set_pop(t)
    \/ \E t \in live : set_store(t)
    \/ \E t \in live : store_return(t)
    \/ Tick

SpecStore == InitStore /\ [][NextStore]_vars

----------------------------------------------------------------------------
(* Texts.  A text is a sequence of chunks: a domain name is its labels and *)
(* dots (<<"w", ".">> is "w."), an address is one chunk.                   *)

ROOTS == {"198.41.0.4"}

\* a type table that lets MX through
TYPES_withMX == {"A", "AAAA", "CNAME", "MX"}

\* resolver.py line 9
TYPES == {"A", "AAAA", "CNAME"}

IsAbsolute(n) == n # <<>> /\ n[Len(n)] = "."

\* dns.name.from_text(qname), made absolute (resolver.py lines 34-35)
from_text(q) == IF IsAbsolute(q) THEN q ELSE q \o <<".">>

\* text.rstrip(".")
RECURSIVE rstrip_dot(_)
rstrip_dot(n) ==
    IF n # <<>> /\ n[Len(n)] = "." THEN rstrip_dot(SubSeq(n, 1, Len(n) - 1)) ELSE n

LowerChunk(c) == IF c = "W" THEN "w" ELSE c

\* the name as a nameserver compares it: DNS names match case-insensitively
Lower(n) == [i \in DOMAIN n |-> LowerChunk(n[i])]

\* value.split(" ")[0]
RECURSIVE FirstToken(_)
FirstToken(v) ==
    IF v = <<>> \/ v[1] = " " THEN <<>> ELSE <<v[1]>> \o FirstToken(Tail(v))

\* rdata.to_text(): an address, or the target name of a CNAME / NS record
to_text(r) == IF "address" \in DOMAIN r THEN <<r.address>> ELSE r.target

\* _rrset(rrset), resolver.py lines 11-17 (and lines 95-100 for authority)
_rrset(rr) ==
    [name |-> rr.name, rdtype |-> rr.rdtype, ttl |-> rr.ttl,
     records |-> [i \in DOMAIN rr.items |-> [value |-> to_text(rr.items[i])]]]

Serialize(section) == [i \in DOMAIN section |-> _rrset(section[i])]

\* list(dict.fromkeys(xs)): duplicates dropped, first occurrences kept in order
RECURSIVE Dedupe(_)
Dedupe(xs) ==
    IF xs = <<>> THEN <<>>
    ELSE LET rest == Dedupe(SubSeq(xs, 1, Len(xs) - 1))
             x == xs[Len(xs)]
         IN  IF \E i \in DOMAIN rest : rest[i] = x THEN rest ELSE Append(rest, x)

RECURSIVE Concat(_)
Concat(ss) == IF ss = <<>> THEN <<>> ELSE ss[1] \o Concat(Tail(ss))

----------------------------------------------------------------------------
(* The nameservers the resolver talks to: a small delegation tree.         *)
(*   w.  has an A record (ttl 2) and an AAAA record (ttl 0)                *)
(*   y.  is an alias (CNAME, ttl 1) of w.; its servers add w.'s address    *)
(*   x.  is an alias of w.; its servers answer with the CNAME alone        *)
(*   c.  and d. are aliases of each other: a CNAME loop                    *)
(*   e.  is delegated to a nameserver host nobody can resolve              *)
(*   every other name does not exist                                       *)
(* The root refers to the zone's nameservers ns1 (with glue) and ns2       *)
(* (without glue); both serve the zone.                                    *)

NS1 == "10.0.0.1"
NS2 == "10.0.0.2"

W == <<"w", ".">>
Y == <<"y", ".">>
X == <<"x", ".">>
Cn == <<"c", ".">>
Dn == <<"d", ".">>
En == <<"e", ".">>
Ns1Host == <<"ns1", ".">>
Ns2Host == <<"ns2", ".">>
Ns3Host == <<"ns3", ".">>

RR(name, rdtype, ttl, items) ==
    [name |-> name, rdtype |-> rdtype, ttl |-> ttl, items |-> items]

Message(rcode, answer, authority, additional) ==
    [rcode |-> rcode, answer |-> answer, authority |-> authority,
     additional |-> additional]

Delegation == <<RR(<<".">>, "NS", 2, <<[target |-> Ns1Host], [target |-> Ns2Host]>>)>>
Delegation1 == <<RR(<<".">>, "NS", 2, <<[target |-> Ns1Host]>>)>>
Glue == <<RR(Ns1Host, "A", 2, <<[address |-> NS1]>>)>>
LameDelegation == <<RR(En, "NS", 2, <<[target |-> Ns3Host]>>)>>
Soa == <<RR(<<".">>, "SOA", 1, <<[target |-> Ns1Host]>>)>>

AddressOf(name, rdtype) ==
    IF rdtype = "A" THEN RR(name, "A", 2, <<[address |-> "192.0.2.1"]>>)
    ELSE RR(name, "AAAA", 0, <<[address |-> "2001:db8::1"]>>)

AliasOf(n) == IF n \in {X, Y} THEN W ELSE IF n = Cn THEN Dn ELSE Cn

\* what the root servers may answer to a query for (name, rdtype)
RootAnswers(name, rdtype) ==
    LET n == Lower(name) IN
    IF n \in {W, X, Y} THEN {Message("NOERROR", <<>>, Delegation, Glue)}
    ELSE IF n \in {Cn, Dn} THEN {Message("NOERROR", <<>>, Delegation1, Glue)}
    ELSE IF n = En THEN {Message("NOERROR", <<>>, LameDelegation, <<>>)}
    ELSE {Message("NXDOMAIN", <<>>, Soa, <<>>)}

\* what the zone's nameservers may answer to a query for (name, rdtype)
ZoneAnswers(name, rdtype) ==
    LET n == Lower(name)
        cname == RR(name, "CNAME", 1, <<[target |-> AliasOf(n)]>>)
    IN
    IF n = W THEN
        IF rdtype = "CNAME" THEN {Message("NOERROR", <<>>, Soa, <<>>)}
        ELSE {Message("NOERROR", <<AddressOf(name, rdtype)>>, <<>>, <<>>)}
    ELSE IF n = Y THEN
        IF rdtype = "CNAME" THEN {Message("NOERROR", <<cname>>, <<>>, <<>>)}
        ELSE {Message("NOERROR", <<cname, AddressOf(W, rdtype)>>, <<>>, <<>>)}
    ELSE IF n = X THEN
        IF rdtype = "CNAME" THEN {Message("NOERROR", <<cname>>, <<>>, <<>>)}
        ELSE {Message("NOERROR", <<cname>>, Delegation, Glue),
              Message("NOERROR", <<cname>>, <<>>, <<>>)}
    ELSE IF n \in {Cn, Dn} THEN
        IF rdtype = "CNAME" THEN {Message("NOERROR", <<cname>>, <<>>, <<>>)}
        ELSE {Message("NOERROR", <<cname>>, Delegation1, Glue)}
    ELSE {Message("NXDOMAIN", <<>>, Soa, <<>>)}

\* dns.query.udp(msg, server): the responses server may give
Responses(server, name, rdtype) ==
    IF server \in ROOTS THEN RootAnswers(name, rdtype) ELSE ZoneAnswers(name, rdtype)

\* dns.resolver.resolve(host, rdtype): the address lists the system resolver
\* may return; <<>> stands for the lookup raising
SystemResolver(host, rdtype) ==
    IF Lower(host) = rstrip_dot(Ns2Host) /\ rdtype = "A" THEN {<<>>, <<NS2>>}
    ELSE {<<>>}

----------------------------------------------------------------------------
(* DNSResolver.resolve, resolver.py lines 32-180.                          *)

StepCap == 25       \* resolver.py line 59: while steps < 25
MaxFails == 1       \* UDP exchanges that may fail within one resolve call

\* JSON null and a JSON list, for summary.final_ips
JsonNull == [null |-> TRUE, list |-> <<>>]
JsonList(l) == [null |-> FALSE, list |-> l]

\* line 36: key = (str(name), qtype)
CacheKey(name, qtype) == <<name, qtype>>

\* lines 50-57: the locals of a resolution that starts at root
StartWalk(r, root) ==
    [r EXCEPT !.trace = <<>>, !.cname_chain = <<>>, !.hop_id = 0,
              !.start_total = r.perf, !.current = r.name, !.ns_ips = <<root>>,
              !.final_rrsets = <<>>, !.steps = 0, !.brk = FALSE]

\* a loop test that is off by one
LoopContinues_le(r) == ~r.brk /\ r.steps <= StepCap

\* line 59: while steps < 25 (and no break)
LoopContinues(r) == ~r.brk /\ r.steps < StepCap

\* a failure that is always recorded and always sends the walk back to a root
OnFailure_alwaysHop(r, root) ==
    [r EXCEPT !.hop_id = r.hop_id + 1,
              !.trace = Append(r.trace,
                  [step |-> r.hop_id + 1, server |-> r.ns_ips[1], role |-> "ns",
                   question |-> [name |-> r.current, type |-> r.qtype],
                   answer |-> <<>>, additional |-> <<>>, rtt_ms |-> None,
                   cached |-> FALSE, error |-> "timeout"]),
              !.ns_ips = <<root>>]

\* lines 72-83: the exchange raised
OnFailure(r, root) ==
    LET server == r.ns_ips[1] IN
    IF Len(r.ns_ips) > 1
    THEN [r EXCEPT !.ns_ips = Tail(r.ns_ips)]
    ELSE [r EXCEPT !.hop_id = r.hop_id + 1,
                   !.trace = Append(r.trace,
                       [step |-> r.hop_id + 1, server |-> server, role |-> "ns",
                        question |-> [name |-> r.current, type |-> r.qtype],
                        answer |-> <<>>, additional |-> <<>>, rtt_ms |-> None,
                        cached |-> FALSE, error |-> "timeout"]),
                   !.ns_ips = <<root>>]

\* _glue_ips(additional)[host], resolver.py lines 19-26
GlueIps(additional, host) ==
    Concat([i \in DOMAIN additional |->
              IF additional[i].rdtype \in {"A", "AAAA"}
                 /\ rstrip_dot(additional[i].name) = host
              THEN [j \in DOMAIN additional[i].items |-> additional[i].items[j].address]
              ELSE <<>>])

\* host in glue
InGlue(additional, host) ==
    \E i \in DOMAIN additional :
        /\ additional[i].rdtype \in {"A", "AAAA"}
        /\ rstrip_dot(additional[i].name) = host

\* lines 132-135: the NS hosts of the authority section, in order
NsHosts(authority) ==
    Concat([i \in DOMAIN authority |->
              IF authority[i].rdtype = "NS"
              THEN [j \in DOMAIN authority[i].items |->
                      rstrip_dot(authority[i].items[j].target)]
              ELSE <<>>])

\* lines 136-149: the addresses one NS host contributes: its glue, or what the
\* system resolver returns for A and then for AAAA
HostIps(additional, host) ==
    IF InGlue(additional, host) THEN {GlueIps(additional, host)}
    ELSE {a \o b : a \in SystemResolver(host, "A"), b \in SystemResolver(host, "AAAA")}

RECURSIVE CollectIps(_, _)
CollectIps(additional, hosts) ==
    IF hosts = <<>> THEN {<<>>}
    ELSE {a \o b : a \in HostIps(additional, hosts[1]),
                   b \in CollectIps(additional, Tail(hosts))}

\* lines 130-151: the next_ips lists referral handling may end with
NextIps(resp) ==
    {Dedupe(x) : x \in CollectIps(resp.additional, NsHosts(resp.authority))}

\* the system-resolver lookups referral handling makes (two per host without glue)
SystemLookups(resp) ==
    LET hosts == NsHosts(resp.authority) IN
    2 * Cardinality({i \in DOMAIN hosts : ~InGlue(resp.additional, hosts[i])})

\* a hop numbered by the loop counter instead of hop_id
Hop_bySteps(r, resp) ==
    [step |-> r.steps, server |-> r.ns_ips[1], role |-> "ns",
     question |-> [name |-> r.current, type |-> r.qtype],
     answer |-> Serialize(resp.answer), additional |-> Serialize(resp.additional),
     authority |-> Serialize(resp.authority), rtt_ms |-> Some(1), cached |-> FALSE]

\* lines 87-105: the hop of a response
Hop(r, resp) ==
    [step |-> r.hop_id + 1, server |-> r.ns_ips[1], role |-> "ns",
     question |-> [name |-> r.current, type |-> r.qtype],
     answer |-> Serialize(resp.answer), additional |-> Serialize(resp.additional),
     authority |-> Serialize(resp.authority), rtt_ms |-> Some(1), cached |-> FALSE]

\* line 114: any(a.rdtype == rdtype for a in resp.answer)
IsTerminal(resp, rdtype) == \E i \in DOMAIN resp.answer : resp.answer[i].rdtype = rdtype

HasCname(resp) == \E i \in DOMAIN resp.answer : resp.answer[i].rdtype = "CNAME"

\* lines 118-120: the first CNAME rrset's first target
FirstCnameTarget(resp) ==
    LET i == CHOOSE i \in DOMAIN resp.answer :
                 /\ resp.answer[i].rdtype = "CNAME"
                 /\ \A j \in 1..(i - 1) : resp.answer[j].rdtype # "CNAME"
    IN  resp.answer[i].items[1].target

\* a referral that starts over at a root when it finds no address
Referral_retry(r, resp, nx) ==
    IF nx = <<>> THEN [r EXCEPT !.ns_ips = <<"198.41.0.4">>,
                                !.sys = r.sys + SystemLookups(resp)]
    ELSE [r EXCEPT !.ns_ips = nx, !.sys = r.sys + SystemLookups(resp)]

\* a referral that goes on with whatever list it has built
Referral_noBreak(r, resp, nx) ==
    [r EXCEPT !.ns_ips = nx, !.sys = r.sys + SystemLookups(resp)]

\* lines 129-154: referral handling, ending with next_ips = nx
Referral(r, resp, nx) ==
    IF nx = <<>> THEN [r EXCEPT !.brk = TRUE, !.sys = r.sys + SystemLookups(resp)]
    ELSE [r EXCEPT !.ns_ips = nx, !.sys = r.sys + SystemLookups(resp)]

\* lines 85-154: a response arrived; root and nx are the choices made on the way
OnResponse(r, resp, root, nx) ==
    LET hop == Hop(r, resp)
        r1 == [r EXCEPT !.hop_id = r.hop_id + 1, !.trace = Append(r.trace, hop)]
    IN
    IF resp.rcode = "NXDOMAIN" THEN [r1 EXCEPT !.brk = TRUE]
    ELSE IF resp.answer # <<>> /\ IsTerminal(resp, r.qtype)
    THEN [r1 EXCEPT !.final_rrsets = hop.answer, !.brk = TRUE]
    ELSE IF resp.answer # <<>> /\ HasCname(resp)
    THEN Referral([r1 EXCEPT
                      !.cname_chain = Append(r1.cname_chain,
                                             rstrip_dot(FirstCnameTarget(resp))),
                      !.current = FirstCnameTarget(resp),
                      !.ns_ips = <<root>>],
                  resp, nx)
    ELSE Referral(r1, resp, nx)

\* lines 159-163: the addresses of the final answer
FinalIps(final_rrsets) ==
    Concat([i \in DOMAIN final_rrsets |->
              IF final_rrsets[i].rdtype \in {"A", "AAAA"}
              THEN [j \in DOMAIN final_rrsets[i].records |->
                      FirstToken(final_rrsets[i].records[j].value)]
              ELSE <<>>])

\* the greatest instead of the least ttl
MinTtl_max(final_rrsets) ==
    IF final_rrsets = <<>> THEN 0
    ELSE CHOOSE m \in {final_rrsets[i].ttl : i \in DOMAIN final_rrsets} :
             \A i \in DOMAIN final_rrsets : m >= final_rrsets[i].ttl

\* line 167: min((rr["ttl"] for rr in final_rrsets), default=0)
MinTtl(final_rrsets) ==
    IF final_rrsets = <<>> THEN 0
    ELSE CHOOSE m \in {final_rrsets[i].ttl : i \in DOMAIN final_rrsets} :
             \A i \in DOMAIN final_rrsets : m <= final_rrsets[i].ttl

\* line 170: the value stored in the cache
CacheData(r) ==
    [answer |-> r.final_rrsets, final_ips |-> FinalIps(r.final_rrsets),
     cname_chain |-> r.cname_chain, ms |-> r.perf - r.start_total]

\* line 176: final_ips or None
OrNone(l) == IF l = <<>> THEN JsonNull ELSE JsonList(l)

\* lines 174-179: the result of a resolution
FreshResult(r) ==
    [kind |-> "ok",
     query |-> [name |-> r.name, type |-> r.qtype,
                cache |-> IF r.use_cache THEN "on" ELSE "off"],
     summary |-> [final_ips |-> OrNone(FinalIps(r.final_rrsets)),
                  total_ms |-> r.perf - r.start_total,
                  hops |-> Len(r.trace), cache_saved_ms |-> 0],
     trace |-> r.trace,
     cname_chain |-> r.cname_chain]

\* a cache hit that reports no time saved
CachedResult_noSaved(r, c) ==
    [kind |-> "ok",
     query |-> [name |-> r.name, type |-> r.qtype, cache |-> "on"],
     summary |-> [final_ips |-> JsonList(c.final_ips), total_ms |-> 0, hops |-> 1,
                  cache_saved_ms |-> 0],
     trace |-> <<[step |-> 1, server |-> "cache", role |-> "cache",
                  question |-> [name |-> r.name, type |-> r.qtype],
                  answer |-> c.answer, additional |-> <<>>, rtt_ms |-> Some(0),
                  cached |-> TRUE]>>,
     cname_chain |-> c.cname_chain]

\* lines 42-48: the result served from cache entry c
CachedResult(r, c) ==
    [kind |-> "ok",
     query |-> [name |-> r.name, type |-> r.qtype, cache |-> "on"],
     summary |-> [final_ips |-> JsonList(c.final_ips), total_ms |-> 0, hops |-> 1,
                  cache_saved_ms |-> c.ms],
     trace |-> <<[step |-> 1, server |-> "cache", role |-> "cache",
                  question |-> [name |-> r.name, type |-> r.qtype],
                  answer |-> c.answer, additional |-> <<>>, rtt_ms |-> Some(0),
                  cached |-> TRUE]>>,
     cname_chain |-> c.cname_chain]

\* an exception leaves resolve
Raised(exc) == [kind |-> "error", exc |-> exc]

----------------------------------------------------------------------------
(* The steps of a resolve call in handler thread t.                        *)

\* the part of the state a step of the resolution loop leaves alone
WalkFrame == UNCHANGED <<s, maxsize, now, live, fr, result, prev>>

\* lines 33-57: validation, the cache key, and either the cache lookup or the
\* start of the resolution
resolve_call(t, qname, qtype, use_cache, root) ==
    /\ pc[t] = "idle"
    /\ LET r == [NoRs EXCEPT !.qname = qname, !.qtype = qtype,
                             !.use_cache = use_cache, !.name = from_text(qname),
                             !.key = CacheKey(from_text(qname), qtype),
                             !.tcall = now]
       IN
       IF qtype \notin TYPES
       THEN /\ result' = [result EXCEPT ![t] = Raised("ValueError")]
            /\ rs' = [rs EXCEPT ![t] = [NoRs EXCEPT !.qname = qname, !.qtype = qtype,
                                                    !.use_cache = use_cache,
                                                    !.tcall = now, !.pre = s]]
            /\ pc' = [pc EXCEPT ![t] = "ret"]
            /\ UNCHANGED fr
       ELSE IF use_cache
       THEN /\ rs' = [rs EXCEPT ![t] = r]
            /\ fr' = [fr EXCEPT ![t] = [NoFrame EXCEPT !.op = "get", !.k = r.key,
                                                       !.after = "resolve"]]
            /\ pc' = [pc EXCEPT ![t] = "get"]
            /\ UNCHANGED result
       ELSE /\ rs' = [rs EXCEPT ![t] = StartWalk(r, root)]
            /\ pc' = [pc EXCEPT ![t] =
                        IF LoopContinues(StartWalk(r, root)) THEN "loop" ELSE "finish"]
            /\ UNCHANGED <<fr, result>>
    /\ UNCHANGED <<s, maxsize, now, live, prev>>

\* lines 39-57: cache.get returned c; serve it, or start the resolution
resolve_cached(t, root) ==
    /\ pc[t] = "get_ret"
    /\ fr[t].after = "resolve"
    /\ IF fr[t].ret # None
       THEN /\ result' = [result EXCEPT ![t] = CachedResult(rs[t], fr[t].ret[1])]
            /\ pc' = [pc EXCEPT ![t] = "ret"]
            /\ UNCHANGED rs
       ELSE /\ rs' = [rs EXCEPT ![t] = StartWalk(rs[t], root)]
            /\ pc' = [pc EXCEPT ![t] =
                        IF LoopContinues(StartWalk(rs[t], root)) THEN "loop"
                        ELSE "finish"]
            /\ UNCHANGED result
    /\ UNCHANGED <<s, maxsize, now, live, fr, prev>>

\* lines 59-70: the next iteration sends its query (one UDP exchange, one unit
\* of perf_counter time).  rs[t].rcode and rs[t].next_ips keep, for stating
\* what the loop did, the rcode of the last exchange's response ("" when it
\* raised) and the next_ips list its sections give
Sent(r) == [r EXCEPT !.steps = r.steps + 1, !.udp = r.udp + 1, !.perf = r.perf + 1]

\* one iteration of the loop whose exchange raises (lines 59-83)
exchange_fail(t, root) ==
    /\ pc[t] = "loop"
    /\ rs[t].fails < MaxFails
    /\ LET r == [OnFailure(Sent(rs[t]), root) EXCEPT !.fails = rs[t].fails + 1,
                                                     !.rcode = "", !.next_ips = None]
       IN
         /\ rs' = [rs EXCEPT ![t] = r]
         /\ pc' = [pc EXCEPT ![t] = IF LoopContinues(r) THEN "loop" ELSE "finish"]
    /\ WalkFrame

\* one iteration of the loop whose exchange returns resp (lines 59-70, 85-154)
exchange_ok(t, root) ==
    /\ pc[t] = "loop"
    /\ \E resp \in Responses(rs[t].ns_ips[1], rs[t].current, rs[t].qtype) :
         \E nx \in NextIps(resp) :
            LET r == [OnResponse(Sent(rs[t]), resp, root, nx) EXCEPT
                         !.rcode = resp.rcode, !.next_ips = Some(nx)]
            IN
              /\ rs' = [rs EXCEPT ![t] = r]
              /\ pc' = [pc EXCEPT ![t] = IF LoopContinues(r) THEN "loop" ELSE "finish"]
    /\ WalkFrame

\* lines 156-179: after the loop; the answer goes to the cache, or the result
\* is returned
finish(t) ==
    /\ pc[t] = "finish"
    /\ LET r == [rs[t] EXCEPT !.tdone = now] IN
         /\ rs' = [rs EXCEPT ![t] = r]
         /\ IF r.final_rrsets # <<>> /\ r.use_cache
            THEN /\ fr' = [fr EXCEPT ![t] =
                            [NoFrame EXCEPT !.op = "set", !.k = r.key,
                                            !.data = CacheData(r),
                                            !.ttl = MinTtl(r.final_rrsets),
                                            !.pre = IF live = {t} THEN s ELSE <<>>,
                                            !.after = "resolve"]]
                 /\ pc' = [pc EXCEPT ![t] = "set"]
                 /\ UNCHANGED result
            ELSE /\ result' = [result EXCEPT ![t] = FreshResult(r)]
                 /\ pc' = [pc EXCEPT ![t] = "ret"]
                 /\ UNCHANGED fr
    /\ UNCHANGED <<s, maxsize, now, live, prev>>

\* lines 168-179: cache.set returned, or raised and its exception leaves resolve
resolve_stored(t) ==
    /\ pc[t] = "set_ret"
    /\ fr[t].after = "resolve"
    /\ result' = [result EXCEPT ![t] =
                    IF fr[t].exc # "" THEN Raised(fr[t].exc) ELSE FreshResult(rs[t])]
    /\ pc' = [pc EXCEPT ![t] = "ret"]
    /\ UNCHANGED <<s, maxsize, now, live, fr, rs, prev>>

\* the final answer a returned call ended with
FinalAnswer(t) ==
    IF result[t].kind # "ok" THEN <<>>
    ELSE IF fr[t].op = "get" /\ fr[t].ret # None THEN fr[t].ret[1].answer
    ELSE rs[t].final_rrsets

\* thread t's call was served from the cache
ServedFromCache(t) == fr[t].op = "get" /\ fr[t].ret # None

\* the least TTL among the RRSets of a non-empty answer
LeastTtl(answer) ==
    CHOOSE m \in {answer[i].ttl : i \in DOMAIN answer} :
        \A i \in DOMAIN answer : answer[i].ttl >= m

\* when the TTL of the answer t's call ended with runs out: counted from the
\* end of the resolution that fetched it (for an answer served from the
\* cache, that is the expiration of the entry served)
RunsOut(t) ==
    IF ServedFromCache(t) THEN fr[t].v[1].exp
    ELSE rs[t].tdone + LeastTtl(FinalAnswer(t))

\* main.py line 38: the handler hands the result to its client
resolve_return(t) ==
    /\ pc[t] = "ret"
    /\ prev' = IF live = {t} /\ rs[t].use_cache /\ FinalAnswer(t) # <<>>
               THEN [qname |-> rs[t].qname, qtype |-> rs[t].qtype,
                     until |-> RunsOut(t)]
               ELSE NoPrev
    /\ pc' = [pc EXCEPT ![t] = "idle"]
    /\ fr' = [fr EXCEPT ![t] = NoFrame]
    /\ rs' = [rs EXCEPT ![t] = NoRs]
    /\ result' = [result EXCEPT ![t] = NoResult]
    /\ UNCHANGED <<s, maxsize, now, live>>

----------------------------------------------------------------------------
(* Spec: one client of the resolver, one resolve call at a time, with the *)
(* cache on or off; every UDP exchange gets its response.                  *)

QNames == {<<"w">>, <<"W">>, <<"y">>}

QTypes == {"A", "AAAA", "CNAME", "MX"}

Init == InitStore

Next ==
    \/ \E t \in live, q \in QNames, ty \in QTypes, uc \in BOOLEAN, root \in ROOTS :
           resolve_call(t, q, ty, uc, root)
    \/ \E t \in live, root \in ROOTS : resolve_cached(t, root)
    \/ \E t \in live, root \in ROOTS : exchange_ok(t, root)
    \/ \E t \in live : finish(t)
    \/ \E t \in live : resolve_stored(t)
    \/ \E t \in live : resolve_return(t)
    \/ \E t \in live : get_lookup(t)
    \/ \E t \in live : get_check(t)
    \/ \E t \in live : get_pop(t)
    \/ \E t \in live : set_check(t)
    \/ \E t \in live : set_iter(t)
    \/ \E t \in live : set_pop(t)
    \/ \E t \in live : set_store(t)
    \/ Tick

Spec == Init /\ [][Next]_vars

----------------------------------------------------------------------------
(* SpecWalk: one client calling resolve with the cache off, for every name *)
(* of the delegation tree; up to MaxFails UDP exchanges of a call fail.    *)

WalkNames == {<<"w">>, <<"W", ".">>, <<"y">>, <<"x">>, <<"c">>, <<"e">>, <<"n">>}

NextWalk ==
    \/ \E t \in live, q \in WalkNames, ty \in QTypes, root \in ROOTS :
           resolve_call(t, q, ty, FALSE, root)
    \/ \E t \in live, root \in ROOTS : exchange_fail(t, root)
    \/ \E t \in live, root \in ROOTS : exchange_ok(t, root)
    \/ \E t \in live : finish(t)
    \/ \E t \in live : resolve_return(t)

SpecWalk == Init /\ [][NextWalk]_vars

\* every UDP exchange returns or times out (resolver.py line 70, timeout), so
\* the single handler always takes its next step
SpecWalkFair == SpecWalk /\ WF_vars(NextWalk)

----------------------------------------------------------------------------
(* SpecCached: one client calling resolve with the cache on, for names     *)
(* answered with a CNAME and its target's address (y), with a CNAME that   *)
(* is followed (x), not at all (n) or with a delegation that leads nowhere *)
(* (e).                                                                    *)

CachedNames == {<<"y">>, <<"x">>, <<"n">>, <<"e">>}

CachedTypes == {"A", "AAAA", "CNAME"}

NextCached ==
    \/ \E t \in live, q \in CachedNames, ty \in CachedTypes, root \in ROOTS :
           resolve_call(t, q, ty, TRUE, root)
    \/ \E t \in live, root \in ROOTS : resolve_cached(t, root)
    \/ \E t \in live, root \in ROOTS : exchange_ok(t, root)
    \/ \E t \in live : finish(t)
    \/ \E t \in live : resolve_stored(t)
    \/ \E t \in live : resolve_return(t)
    \/ \E t \in live : get_lookup(t)
    \/ \E t \in live : get_check(t)
    \/ \E t \in live : get_pop(t)
    \/ \E t \in live : set_check(t)
    \/ \E t \in live : set_iter(t)
    \/ \E t \in live : set_pop(t)
    \/ \E t \in live : set_store(t)
    \/ Tick

SpecCached == Init /\ [][NextCached]_vars

----------------------------------------------------------------------------
(* SpecThreads: the handlers of main.py run resolve on the one shared      *)
(* cache, their steps interleaved.                                         *)

ThreadNames == {<<"w">>, <<"y">>}

InitThreads ==
    /\ s = <<>>
    /\ maxsize \in 1..MaxCap
    /\ now = 0
    /\ live = Threads
    /\ pc = [t \in Threads |-> "idle"]
    /\ fr = [t \in Threads |-> NoFrame]
    /\ rs = [t \in Threads |-> NoRs]
    /\ result = [t \in Threads |-> NoResult]
    /\ prev = NoPrev

NextThreads ==
    \/ \E t \in live, q \in ThreadNames, root \in ROOTS :
           resolve_call(t, q, "A", TRUE, root)
    \/ \E t \in live, root \in ROOTS : resolve_cached(t, root)
    \/ \E t \in live, root \in ROOTS : exchange_ok(t, root)
    \/ \E t \in live : finish(t)
    \/ \E t \in live : resolve_stored(t)
    \/ \E t \in live : resolve_return(t)
    \/ \E t \in live : get_lookup(t)
    \/ \E t \in live : get_check(t)
    \/ \E t \in live : get_pop(t)
    \/ \E t \in live : set_check(t)
    \/ \E t \in live : set_iter(t)
    \/ \E t \in live : set_pop(t)
    \/ \E t \in live : set_store(t)
    \/ Tick

SpecThreads == InitThreads /\ [][NextThreads]_vars

----------------------------------------------------------------------------
(* Claims about the TTLStore used by one caller (SpecStore).               *)

\* a get call of the store's caller has just returned in thread t
GetReturned(t) == pc[t] = "get_ret" /\ fr[t].after = "store"

\* a set call of the store's caller has just returned in thread t
SetReturned(t) == pc[t] = "set_ret" /\ fr[t].after = "store"

\* C1: with get and set issued one at a time on a store created with
\* maxsize >= 1, the store never holds more than maxsize entries (in any
\* state, also between two lines of a method).
C1_SizeAtMostMaxsize == Len(s) <= maxsize

\* C1's case: a set on a full store has evicted an entry and stored its own.
C1_EvictedAtCapacity ==
    \E t \in live :
        /\ SetReturned(t)
        /\ fr[t].victim # None
        /\ Len(fr[t].pre) = maxsize
        /\ Len(s) = maxsize

\* C2: get(k) returns the stored value iff an entry for k exists and the
\* time get reads is strictly before the entry's expiration; otherwise it
\* returns None, an entry found expired is removed by that call and nothing
\* else changes; the expiration a set stores is the time of the set plus ttl.
C2_GetReturnsIffLive ==
    \A t \in live :
        /\ GetReturned(t) =>
             LET f == fr[t]
                 e == DictGet(f.pre, f.k)
             IN  /\ (f.ret # None) <=> (e # None /\ f.tread < e[1].exp)
                 /\ f.ret # None => f.ret = Some(e[1].data) /\ s = f.pre
                 /\ e = None => s = f.pre
                 /\ (e # None /\ f.tread >= e[1].exp) =>
                        /\ f.k \notin DictKeys(s)
                        /\ s = DictRemove(f.pre, f.k)
        /\ (SetReturned(t) /\ fr[t].ttl > 0) =>
             DictGet(s, fr[t].k) =
                 Some([exp |-> fr[t].tread + fr[t].ttl, data |-> fr[t].data])

\* C2's case: a get found its entry at its expiration time or later, returned
\* None and removed it.
C2_ExpiredEntryRemoved ==
    \E t \in live :
        /\ GetReturned(t)
        /\ fr[t].k \in DictKeys(fr[t].pre)
        /\ fr[t].tread >= DictGet(fr[t].pre, fr[t].k)[1].exp
        /\ fr[t].ret = None
        /\ fr[t].k \notin DictKeys(s)

\* a set call of the store's caller is under way or has just returned in t
InSet(t) == fr[t].op = "set" /\ fr[t].after = "store"

\* C12: set(key, value, ttl) with ttl <= 0 is a no-op: keys, values,
\* expirations and eviction order stay as they were, at every line of the
\* call, also at capacity and also when key is present; the call returns
\* normally.
C12_NonPositiveTtlNoOp ==
    \A t \in live :
        (InSet(t) /\ fr[t].ttl <= 0) =>
            /\ s = fr[t].pre
            /\ fr[t].exc = ""
            /\ fr[t].victim = None

\* C12's case: a set with ttl 0 on a present key of a full store has returned.
C12_NoOpAtCapacity ==
    \E t \in live :
        /\ SetReturned(t)
        /\ fr[t].ttl = 0
        /\ Len(fr[t].pre) = maxsize
        /\ fr[t].k \in DictKeys(fr[t].pre)
        /\ DictGet(fr[t].pre, fr[t].k)[1].data # fr[t].data

\* the keys of dict d in the order they entered it
KeysOf(d) == [i \in DOMAIN d |-> d[i].k]

\* C13: an eviction by set removes the key that entered the store earliest
\* among those present; the keys that stay keep their order of entry and a
\* key that is new enters last; a get that returns a value leaves the store,
\* and so the next key to be evicted, as it was.
C13_FifoEviction ==
    \A t \in live :
        /\ (SetReturned(t) /\ fr[t].ttl > 0) =>
             LET kp == KeysOf(fr[t].pre)
                 rest == IF fr[t].victim # None THEN Tail(kp) ELSE kp
             IN  /\ fr[t].victim # None => fr[t].victim = Some(kp[1])
                 /\ KeysOf(s) = IF \E i \in DOMAIN rest : rest[i] = fr[t].k
                                THEN rest ELSE Append(rest, fr[t].k)
        /\ (GetReturned(t) /\ fr[t].ret # None) =>
             /\ s = fr[t].pre
             /\ FirstKey(s) = FirstKey(fr[t].pre)

\* C13's case: a set of a new key on a store of two entries evicted the older.
C13_OldestEvicted ==
    \E t \in live :
        /\ SetReturned(t)
        /\ Len(fr[t].pre) = 2
        /\ fr[t].k \notin DictKeys(fr[t].pre)
        /\ fr[t].victim = Some(fr[t].pre[1].k)
        /\ KeysOf(s) = <<fr[t].pre[2].k, fr[t].k>>

\* C19: set(key, value, ttl) with ttl > 0 evicts only if storing would make
\* the store exceed maxsize: a set on a present key evicts nothing, a set of a
\* new key evicts only from a store of maxsize entries, and every key other
\* than the evicted one keeps its value and expiration.
C19_EvictsOnlyToMakeRoom ==
    \A t \in live :
        (SetReturned(t) /\ fr[t].ttl > 0) =>
            LET pre == fr[t].pre
                grows == fr[t].k \notin DictKeys(pre)
                removed == DictKeys(pre) \ DictKeys(s)
            IN  /\ removed # {} => (grows /\ Len(pre) + 1 > maxsize)
                /\ Cardinality(removed) <= 1
                /\ \A i \in DOMAIN pre :
                       (pre[i].k # fr[t].k /\ pre[i].k \notin removed) =>
                           DictGet(s, pre[i].k) =
                               Some([exp |-> pre[i].exp, data |-> pre[i].data])

----------------------------------------------------------------------------
(* Claims about handlers sharing the cache (SpecThreads).                  *)

\* C3: with the cache calls of concurrently running resolve requests
\* interleaved, the store never holds more than maxsize entries.
C3_SharedSizeAtMostMaxsize == Cardinality(DictKeys(s)) <= maxsize

\* C4: with the cache calls of concurrently running resolve requests
\* interleaved, every get and set completes normally and no resolve call is
\* aborted by the cache.
C4_CacheCallsComplete ==
    \A t \in live :
        /\ fr[t].exc = ""
        /\ pc[t] = "ret" => result[t].kind = "ok"

----------------------------------------------------------------------------
(* Claims about resolve and its cache, one call at a time (Spec).          *)

\* thread t's resolve call has its result and is about to hand it over
Returned(t) == pc[t] = "ret"

\* the result is the single synthetic hop of a cache hit
IsCacheHit(res) ==
    /\ res.kind = "ok"
    /\ Len(res.trace) = 1
    /\ res.trace[1].server = "cache"

\* this call repeats the previous call's request, with the cache on, before
\* the TTL of the previous call's answer has run out
RepeatsWithinTtl(t) ==
    /\ rs[t].use_cache
    /\ prev.qname = rs[t].qname
    /\ prev.qtype = rs[t].qtype
    /\ rs[t].tcall < prev.until

\* C5: of two consecutive resolve(name, type, use_cache=true) calls with the
\* same name and type, where the first ended with a non-empty final answer and
\* the second starts before that answer's minimum TTL has elapsed, the second
\* sends no UDP query and returns the single hop of server "cache".
C5_RepeatWithinTtlHits ==
    \A t \in live :
        (Returned(t) /\ RepeatsWithinTtl(t)) =>
            /\ IsCacheHit(result[t])
            /\ rs[t].udp = 0

\* C5's case: a repeated request within the TTL has been answered.
C5_RepeatAnswered ==
    \E t \in live :
        /\ Returned(t)
        /\ RepeatsWithinTtl(t)
        /\ rs[t].tcall > 0
        /\ IsCacheHit(result[t])

\* C6: a result served from the cache has exactly one hop (step 1, server and
\* role "cache", rtt_ms 0, cached), total_ms 0 and hops 1, and its answer,
\* final_ips, cname_chain and cache_saved_ms are those of the entry stored
\* under the request's (name, type) key; the entry a resolution stores holds
\* its final answer, the addresses of that answer, its cname_chain and its
\* total time.
C6_CacheHitShape ==
    \A t \in live :
        /\ (Returned(t) /\ ServedFromCache(t)) =>
             LET res == result[t]
                 e == DictGet(s, <<rs[t].name, rs[t].qtype>>)
             IN  /\ res.kind = "ok"
                 /\ Len(res.trace) = 1
                 /\ res.trace[1].step = 1
                 /\ res.trace[1].server = "cache"
                 /\ res.trace[1].role = "cache"
                 /\ res.trace[1].rtt_ms = Some(0)
                 /\ res.trace[1].cached
                 /\ res.summary.total_ms = 0
                 /\ res.summary.hops = 1
                 /\ e # None
                 /\ res.trace[1].answer = e[1].data.answer
                 /\ ~res.summary.final_ips.null
                 /\ res.summary.final_ips.list = e[1].data.final_ips
                 /\ res.cname_chain = e[1].data.cname_chain
                 /\ res.summary.cache_saved_ms = e[1].data.ms
        /\ (pc[t] = "set_ret" /\ fr[t].after = "resolve" /\ fr[t].ttl > 0) =>
             LET e == DictGet(s, <<rs[t].name, rs[t].qtype>>) IN
                 /\ e # None
                 /\ e[1].data.answer = rs[t].final_rrsets
                 /\ e[1].data.answer = rs[t].trace[Len(rs[t].trace)].answer
                 /\ e[1].data.cname_chain = rs[t].cname_chain
                 /\ e[1].data.ms = rs[t].perf - rs[t].start_total
                 /\ e[1].data.ms = FreshResult(rs[t]).summary.total_ms
                 /\ JsonList(e[1].data.final_ips) =
                        [FreshResult(rs[t]).summary.final_ips EXCEPT !.null = FALSE]

\* C6's case: a call was served an entry that an earlier resolution, which
\* took time and followed no CNAME, had stored.
C6_ServedStoredEntry ==
    \E t \in live :
        /\ Returned(t)
        /\ ServedFromCache(t)
        /\ result[t].summary.cache_saved_ms > 0
        /\ result[t].summary.final_ips.list # <<>>

\* C9: in every Result, fresh or served from the cache and for every
\* supported type, summary.final_ips is null or a non-empty list.
C9_FinalIpsNullOrNonEmpty ==
    \A t \in live :
        (Returned(t) /\ result[t].kind = "ok") =>
            \/ result[t].summary.final_ips.null
            \/ result[t].summary.final_ips.list # <<>>

\* C10: resolve with a type outside {A, AAAA, CNAME} raises the validation
\* error before any UDP query, system-resolver lookup or cache call, has no
\* trace, and leaves the cache as it was before the call.
C10_UnsupportedTypeRejected ==
    \A t \in live :
        (pc[t] # "idle" /\ rs[t].qtype \notin {"A", "AAAA", "CNAME"}) =>
            /\ pc[t] = "ret"
            /\ result[t] = [kind |-> "error", exc |-> "ValueError"]
            /\ rs[t].udp = 0
            /\ rs[t].sys = 0
            /\ rs[t].trace = <<>>
            /\ fr[t] = NoFrame
            /\ s = rs[t].pre

\* C10's case: an MX request was rejected while the cache held an entry.
C10_RejectedWithCacheFilled ==
    \E t \in live :
        /\ Returned(t)
        /\ rs[t].qtype = "MX"
        /\ rs[t].use_cache
        /\ result[t].kind = "error"
        /\ s # <<>>

\* this call asks, with the cache on and before the previous answer's TTL has
\* run out, for the previous call's type and for a name that differs from the
\* previous call's name at most in letter case
RepeatsUpToCase(t) ==
    /\ rs[t].use_cache
    /\ prev.qname # <<>>
    /\ Lower(from_text(prev.qname)) = Lower(from_text(rs[t].qname))
    /\ prev.qtype = rs[t].qtype
    /\ rs[t].tcall < prev.until

\* C11: the cache key is case-insensitive on the name: after a resolve call
\* with use_cache=true has stored an answer, a call for the same type and a
\* name that differs only in letter case, made within the TTL, is a cache hit.
C11_KeyIgnoresCase ==
    \A t \in live :
        (Returned(t) /\ RepeatsUpToCase(t)) => IsCacheHit(result[t])

----------------------------------------------------------------------------
(* Claims about the resolution loop (SpecWalk).                            *)

\* C7: in every result, trace[i].step = i for the i-th hop (counted from 1):
\* the steps are 1, 2, ..., len(trace) without gap or repeat, and
\* summary.hops = len(trace).
C7_StepsDense ==
    \A t \in live :
        (Returned(t) /\ result[t].kind = "ok") =>
            /\ \A i \in DOMAIN result[t].trace : result[t].trace[i].step = i
            /\ result[t].summary.hops = Len(result[t].trace)

\* C7's case: a result whose resolution got responses after a failed
\* exchange: a candidate skipped silently, or an error hop in mid-trace.
C7_ResultAfterFailure ==
    \E t \in live :
        /\ Returned(t)
        /\ result[t].kind = "ok"
        /\ rs[t].fails > 0
        /\ rs[t].udp > Len(result[t].trace)
        /\ Len(result[t].trace) >= 2
        /\ result[t].summary.final_ips.list # <<>>

LastHop(t) == rs[t].trace[Len(rs[t].trace)]

\* t's last exchange got a response whose answer section has an RRSet of type ty
LastAnswerHas(t, ty) ==
    /\ rs[t].rcode # ""
    /\ \E i \in DOMAIN LastHop(t).answer : LastHop(t).answer[i].rdtype = ty

\* t's last exchange got a response to be followed as a CNAME: a non-empty
\* answer without an RRSet of the requested type and with a CNAME RRSet
CnameResponse(t) ==
    /\ rs[t].rcode = "NOERROR"
    /\ ~LastAnswerHas(t, rs[t].qtype)
    /\ LastAnswerHas(t, "CNAME")

\* the target of the first CNAME RRSet of t's last hop
LastCnameTarget(t) ==
    LET a == LastHop(t).answer
        i == CHOOSE i \in DOMAIN a :
                 /\ a[i].rdtype = "CNAME"
                 /\ \A j \in 1..(i - 1) : a[j].rdtype # "CNAME"
    IN  a[i].records[1].value

\* C14: after a response to be followed as a CNAME (and with iterations
\* left), whatever its authority and additional sections hold, the loop
\* continues with the target appended to cname_chain, current set to the
\* target and ns_ips a single root server, so that the next query is for the
\* target and goes to a root.
C14_CnameRestartsAtRoot ==
    \A t \in live :
        (pc[t] \in {"loop", "finish"} /\ CnameResponse(t) /\ rs[t].steps < 25) =>
            /\ pc[t] = "loop"
            /\ rs[t].current = LastCnameTarget(t)
            /\ rs[t].cname_chain # <<>>
            /\ rs[t].cname_chain[Len(rs[t].cname_chain)] =
                   rstrip_dot(LastCnameTarget(t))
            /\ Len(rs[t].ns_ips) = 1
            /\ rs[t].ns_ips[1] \in ROOTS

\* C15: the counter compared with the cap of 25 counts the recorded hops: it
\* equals the length of the trace, a silently skipped candidate included, and
\* a resolution stopped by the cap has exactly 25 hops in its trace.
C15_CapCountsHops ==
    \A t \in live :
        /\ rs[t].steps = Len(rs[t].trace)
        /\ (pc[t] \in {"finish", "ret"} /\ rs[t].qtype \in TYPES /\ ~rs[t].brk) =>
               Len(rs[t].trace) = 25

\* the step is a failed UDP exchange of t
FailedExchange(t) == rs'[t].fails = rs[t].fails + 1

\* the step appends an error hop to t's trace
ErrorHopAdded(t) ==
    /\ Len(rs'[t].trace) = Len(rs[t].trace) + 1
    /\ "error" \in DOMAIN rs'[t].trace[Len(rs'[t].trace)]

\* C16: a failed UDP exchange with more than one candidate drops the head of
\* ns_ips and records no hop; with a single candidate it appends exactly one
\* error hop (rtt_ms null, error set, empty answer) and resets ns_ips to a
\* single root; either way current is unchanged, the loop goes on (unless the
\* cap is reached) and the call is not aborted; an error hop is appended only
\* by a failed exchange with a single candidate.
C16_FailureHandling ==
    [][\A t \in live :
         /\ FailedExchange(t) =>
              /\ rs'[t].current = rs[t].current
              /\ rs'[t].udp = rs[t].udp + 1
              /\ result' = result
              /\ pc'[t] = IF rs'[t].steps < 25 THEN "loop" ELSE "finish"
              /\ IF Len(rs[t].ns_ips) > 1
                 THEN /\ rs'[t].trace = rs[t].trace
                      /\ rs'[t].ns_ips = Tail(rs[t].ns_ips)
                 ELSE /\ ErrorHopAdded(t)
                      /\ SubSeq(rs'[t].trace, 1, Len(rs[t].trace)) = rs[t].trace
                      /\ LET h == rs'[t].trace[Len(rs'[t].trace)] IN
                           /\ h.rtt_ms = None
                           /\ h.error # ""
                           /\ h.answer = <<>>
                           /\ h.server = rs[t].ns_ips[1]
                           /\ h.question.name = rs[t].current
                      /\ Len(rs'[t].ns_ips) = 1
                      /\ rs'[t].ns_ips[1] \in ROOTS
         /\ ErrorHopAdded(t) => (FailedExchange(t) /\ Len(rs[t].ns_ips) = 1)
      ]_vars

\* C16's case: the query to the only candidate, a zone server the root
\* referred to, failed; the error hop is recorded and the walk is back at a
\* root.
C16_ErrorHopRecorded ==
    \E t \in live :
        /\ pc[t] = "loop"
        /\ rs[t].fails = 1
        /\ rs[t].rcode = ""
        /\ Len(rs[t].trace) = 2
        /\ "error" \in DOMAIN LastHop(t)
        /\ LastHop(t).server \notin ROOTS
        /\ rs[t].ns_ips[1] \in ROOTS

\* C20: at the start of every iteration of the resolution loop ns_ips is
\* non-empty, so that server = ns_ips[0] never fails.
C20_CandidatesNonEmpty ==
    \A t \in live : pc[t] = "loop" => rs[t].ns_ips # <<>>

\* C20's case: an iteration starts after a CNAME redirection, a referral and
\* a failed exchange.
C20_IterationAfterAll ==
    \E t \in live :
        /\ pc[t] = "loop"
        /\ rs[t].cname_chain # <<>>
        /\ rs[t].fails > 0
        /\ rs[t].hop_id >= 3
        /\ rs[t].ns_ips # <<>>

----------------------------------------------------------------------------
(* Claims about resolutions that end with and without an answer, cache on  *)
(* (SpecCached).                                                           *)

\* t's last exchange ended in a dead-end: an NXDOMAIN response, or a referral
\* (no RRSet of the requested type, no CNAME) that yields no next-hop address
DeadEnd(t) ==
    \/ rs[t].rcode = "NXDOMAIN"
    \/ /\ rs[t].rcode = "NOERROR"
       /\ ~LastAnswerHas(t, rs[t].qtype)
       /\ ~LastAnswerHas(t, "CNAME")
       /\ rs[t].next_ips = Some(<<>>)

\* C17: a dead-end ends the resolution at once and is not an error: the loop
\* is left, no further UDP query is sent, the dead-end's hop stays the last
\* hop, the Result is a normal one with final_ips null, and from the dead-end
\* on the cache is neither written nor otherwise changed.
C17_DeadEndStops ==
    /\ [](\A t \in live :
            DeadEnd(t) =>
                /\ pc[t] \in {"finish", "ret"}
                /\ fr[t].op # "set"
                /\ "error" \notin DOMAIN LastHop(t)
                /\ pc[t] = "ret" =>
                       /\ result[t].kind = "ok"
                       /\ result[t].summary.final_ips = [null |-> TRUE, list |-> <<>>]
                       /\ result[t].trace = rs[t].trace
                       /\ result[t].summary.hops = Len(rs[t].trace))
    /\ [][\A t \in live :
            DeadEnd(t) =>
                /\ s' = s
                /\ rs'[t].udp <= rs[t].udp
                /\ pc'[t] \in {"finish", "ret", "idle"}]_vars

\* C17's case: a call with the cache on, for a name that does not exist,
\* returned while the cache held an entry.
C17_NxdomainReturned ==
    \E t \in live :
        /\ Returned(t)
        /\ rs[t].use_cache
        /\ rs[t].rcode = "NXDOMAIN"
        /\ result[t].kind = "ok"
        /\ result[t].summary.final_ips.null
        /\ s # <<>>

\* t's call resolved afresh, with the cache on, to a non-empty final answer
\* and is about to return it
FreshAnswer(t) ==
    /\ Returned(t)
    /\ result[t].kind = "ok"
    /\ ~ServedFromCache(t)
    /\ rs[t].use_cache
    /\ rs[t].final_rrsets # <<>>

\* C18: a resolve call with use_cache=true that ends with a non-empty final
\* answer makes one set: under the key of the requested absolute name and
\* type (not of a CNAME target followed), with the minimum TTL of the final
\* answer's RRSets, leaving an entry that expires that long after the set; an
\* answer of minimum TTL 0 is not stored; every entry of the store has a
\* positive minimum TTL and expires no later than its shortest-lived RRSet,
\* and a cache hit is served strictly before the entry's expiration.
C18_StoredWithMinTtl ==
    /\ \A t \in live :
         FreshAnswer(t) =>
             LET k == <<from_text(rs[t].qname), rs[t].qtype>>
                 m == LeastTtl(rs[t].final_rrsets)
                 f == fr[t]
             IN  /\ f.op = "set"
                 /\ f.k = k
                 /\ f.ttl = m
                 /\ IF m = 0 THEN s = f.pre
                    ELSE /\ DictGet(s, k) # None
                         /\ DictGet(s, k)[1].exp = f.tread + m
                         /\ DictGet(s, k)[1].data.answer = rs[t].final_rrsets
                         /\ DictKeys(s) \ DictKeys(f.pre) \subseteq {k}
                         /\ Len(s) <= Len(f.pre) + 1
                         /\ \A n \in {rs[t].current} \ {rs[t].name} :
                                <<n, rs[t].qtype>> \in DictKeys(s) =>
                                    <<n, rs[t].qtype>> \in DictKeys(f.pre)
    /\ \A i \in DOMAIN s :
         /\ LeastTtl(s[i].data.answer) > 0
         /\ s[i].exp <= now + LeastTtl(s[i].data.answer)
    /\ \A t \in live :
         (Returned(t) /\ ServedFromCache(t)) => fr[t].tread < fr[t].v[1].exp

\* C18's case: an answer reached through a followed CNAME was stored under
\* the requested name, and no entry exists for the CNAME's target.
C18_StoredUnderRequestedName ==
    \E t \in live :
        /\ FreshAnswer(t)
        /\ rs[t].cname_chain # <<>>
        /\ rs[t].current # rs[t].name
        /\ DictGet(s, <<rs[t].name, rs[t].qtype>>) # None
        /\ <<rs[t].current, rs[t].qtype>> \notin DictKeys(s)

====
